---- MODULE Spec2Model ----
(***************************************************************************)
(* The Hissp compiler (src/src/hissp/compiler.py): Compiler.compile drives *)
(* compile-then-execute over a sequence of forms; every compiling method    *)
(* is wrapped by _trace; Compiler.macro expands under macro_context, which  *)
(* sets and resets the context variable NS.                                 *)
(*                                                                         *)
(* Python strings (symbols and emitted text alike) are sequences of atoms:  *)
(* "foo..xAUTO_.bar" is <<"foo", "..", "xAUTO_", ".", "bar">>, ":**" is     *)
(* <<":", "**">>.  A form is a record [type, val]: val holds the atoms of a *)
(* str, the elements of a tuple, or the repr atoms of any other value.      *)
(***************************************************************************)
EXTENDS Integers, Sequences, FiniteSets, TLC

\* ------------------------------------------------------------------ bounds

\* Forms one Compiler compiles in all (over all its compile() calls).
MaxForms == 2

\* ------------------------------------------------------- Python str methods

\* s.startswith(t)
StartsWith(s, t) == Len(s) >= Len(t) /\ SubSeq(s, 1, Len(t)) = t

\* s.endswith(t)
EndsWith(s, t) == Len(s) >= Len(t) /\ SubSeq(s, Len(s) - Len(t) + 1, Len(s)) = t

\* s.find(t) + 1: the first position where t occurs in s, 0 when it does not.
Find(s, t) ==
    LET hits == {i \in 1..(Len(s) - Len(t) + 1) : SubSeq(s, i, i + Len(t) - 1) = t}
    IN  IF hits = {} THEN 0 ELSE CHOOSE i \in hits : \A j \in hits : i <= j

\* t in s
Contains(s, t) == Find(s, t) # 0

\* s.replace(old, new, 1)
Replace1(s, old, new) ==
    LET i == Find(s, old)
    IN  IF i = 0 THEN s
        ELSE SubSeq(s, 1, i - 1) \o new \o SubSeq(s, i + Len(old), Len(s))

\* s.replace(a, new) for a one-atom a
RECURSIVE ReplaceAll(_, _, _)
ReplaceAll(s, a, new) ==
    IF Len(s) = 0 THEN <<>>
    ELSE IF Len(s) = 1 THEN (IF s[1] = a THEN new ELSE s)
    ELSE LET h == Len(s) \div 2
         IN  ReplaceAll(SubSeq(s, 1, h), a, new) \o ReplaceAll(SubSeq(s, h + 1, Len(s)), a, new)

\* sep.join(parts)
RECURSIVE Join(_, _)
Join(sep, parts) ==
    IF parts = <<>> THEN <<>>
    ELSE IF Len(parts) = 1 THEN parts[1]
    ELSE parts[1] \o sep \o Join(sep, Tail(parts))

NL == "\n"

\* ------------------------------------------------------------------- forms

Str(s) == [type |-> "str", val |-> s]
Tuple(items) == [type |-> "tuple", val |-> items]
\* Any other value: its type name and the atoms of its repr.
Value(t, r) == [type |-> t, val |-> r]

\* An exception object: its class and str(e).
Exc(t, m) == [type |-> t, msg |-> m]
\* self.error = False
NoError == Exc("", <<>>)

\* What a traced method hands back: text (a str) or None.
Text(t) == [none |-> FALSE, val |-> t]
None == [none |-> TRUE, val |-> <<>>]

\* ------------------------------------------------------ module-level names

PAIR_WORDS(k) ==
    CASE k = <<":", "*">> -> <<"*">>
      [] k = <<":", "**">> -> <<"**">>
      [] k = <<":", "?">> -> <<>>
      [] OTHER -> k \o <<"=">>

MACROS == <<"_macro_">>
MACRO == <<"..">> \o MACROS \o <<".">>
xAUTO == <<"..", "xAUTO_", ".">>

\* RE_MACRO.split(head, 1): split at the leftmost of the two markers.
RE_MACRO_split(head) ==
    LET i == Find(head, MACRO)
        j == Find(head, xAUTO)
        k == IF i = 0 THEN j ELSE IF j = 0 THEN i ELSE IF i < j THEN i ELSE j
        sep == IF k = i THEN MACRO ELSE xAUTO
    IN  IF k = 0 THEN <<head>>
        ELSE <<SubSeq(head, 1, k - 1), sep, SubSeq(head, k + Len(sep), Len(head))>>

\* Compiler.__init__: qualname="__main__"
qualname == <<"__main__">>

\* repr() of a str
repr_str(s) == <<"'">> \o s \o <<"'">>

\* pprint.pformat / repr of a form (line wrapping left out).
RECURSIVE pformat(_)
pformat(f) ==
    CASE f.type = "str" -> repr_str(f.val)
      [] f.type \in {"tuple", "list"} ->
            LET open == IF f.type = "tuple" THEN "(" ELSE "["
                close == IF f.type = "tuple" THEN ")" ELSE "]"
                items == [i \in 1..Len(f.val) |-> pformat(f.val[i])]
            IN  <<open>> \o Join(<<", ">>, items)
                \o (IF f.type = "tuple" /\ Len(f.val) = 1 THEN <<",">> ELSE <<>>)
                \o <<close>>
      [] OTHER -> f.val

\* _join_args(*args)
_join_args(args) ==
    ReplaceAll((IF args = <<>> THEN <<>> ELSE <<NL>>) \o Join(<<",", NL>>, args),
               NL, <<NL, "  ">>)

\* _pairs(it): the (k, v) pairs in order; a key with no value raises
\* CompileError("Incomplete pair.") when the iteration reaches it.
_pairs(it) ==
    [pairs |-> [i \in 1..(Len(it) \div 2) |-> <<it[2 * i - 1], it[2 * i]>>],
     incomplete |-> Len(it) % 2 = 1]

IncompletePair == Exc("CompileError", <<"Incomplete pair.">>)

\* ------------------------------------------------------ the host environment
\* What the Python runtime around the compiler answers: which modules
\* __import__ finds, what the macro callables do, what exec() of a text does.

\* The macro callables: ordinary host functions taking raw forms.
\*   mId     lambda x: x
\*   mEmpty  lambda *a: ''
\*   mSetNS  lambda x: (NS.set(<another namespace>), x)[1]
\* macro(*tail): the form returned, or the exception raised.
macro_call(id, tail) ==
    IF id = "mEmpty"
    THEN [raises |-> FALSE, form |-> Str(<<>>), exc |-> NoError, setsNS |-> FALSE]
    ELSE IF Len(tail) # 1
    THEN [raises |-> TRUE, form |-> Str(<<>>), setsNS |-> FALSE,
          exc |-> Exc("TypeError", <<"<lambda>() takes 1 positional argument">>)]
    ELSE [raises |-> FALSE, form |-> tail[1], exc |-> NoError, setsNS |-> id = "mSetNS"]

\* The _macro_ container a fresh Namespace of the run starts with.
InitialMacros ==
    (<<"mId">> :> "mId") @@ (<<"mEmpty">> :> "mEmpty") @@ (<<"mSetNS">> :> "mSetNS")
    @@ (<<"quote">> :> "mEmpty") @@ (<<"lambda">> :> "mId")

\* Modules __import__ finds, and the _macro_ container of each that has one.
Importable == {<<"mod">>, <<"bare">>}
ForeignMacros(mod) == IF mod = <<"mod">> THEN (<<"fm">> :> "mId") ELSE <<>>
HasMacros(mod) == mod = <<"mod">>

\* exec(compile(text, "<Hissp>", "exec"), ns), as far as the compiler can tell:
\* the host grammar refuses a * unpacking after a ** unpacking in one argument
\* list; calling boom raises; calling defm binds the macro m in ns[_macro_].
RECURSIVE ScanArguments(_, _)
ScanArguments(text, seen) ==
    IF text = <<>> THEN FALSE
    ELSE LET a == Head(text) IN
         CASE a = "(" -> ScanArguments(Tail(text), <<FALSE>> \o seen)
           [] a = ")" -> ScanArguments(Tail(text), IF seen = <<>> THEN seen ELSE Tail(seen))
           [] a = "**" -> ScanArguments(Tail(text), IF seen = <<>> THEN seen ELSE <<TRUE>> \o Tail(seen))
           [] a = "*" -> (seen # <<>> /\ Head(seen)) \/ ScanArguments(Tail(text), seen)
           [] OTHER -> ScanArguments(Tail(text), seen)

\* Does the text have a * argument after a ** argument of the same call?
StarAfterStars(text) ==
    (\E i \in 1..Len(text) : text[i] = "**") /\ ScanArguments(text, <<>>)

\* The text without its leading "# <head>" marker lines.
RECURSIVE StripMarkers(_)
StripMarkers(text) ==
    IF text # <<>> /\ Head(text) = "# " /\ Contains(text, <<NL>>)
    THEN StripMarkers(SubSeq(text, Find(text, <<NL>>) + 1, Len(text)))
    ELSE text

HostExec(text) ==
    LET code == StripMarkers(text) IN
    IF StarAfterStars(text)
    THEN [raises |-> TRUE, installs |-> FALSE,
          exc |-> Exc("SyntaxError", <<"iterable argument unpacking follows keyword argument unpacking">>)]
    ELSE IF StartsWith(code, <<"boom", "(">>)
    THEN [raises |-> TRUE, installs |-> FALSE, exc |-> Exc("RuntimeError", <<"boom">>)]
    ELSE [raises |-> FALSE, installs |-> StartsWith(code, <<"defm", "(">>), exc |-> NoError]

\* traceback.format_exc()
format_exc(e) ==
    <<"Traceback (most recent call last):", NL, e.type, ": ">> \o e.msg \o <<NL>>

\* -------------------------------------------------- literals and symbols

\* Does ast.literal_eval(literal) == form hold for the literal text of form?
\* nan and inf print as names, an arbitrary object as <...>: neither parses
\* as a literal; a collection round-trips when all its elements do.
RECURSIVE RoundTrips(_)
RoundTrips(f) ==
    CASE f.type \in {"str", "bytes", "int", "NoneType", "bool"} -> TRUE
      [] f.type \in {"float", "complex"} -> ~(\E i \in 1..Len(f.val) : f.val[i] \in {"nan", "inf"})
      [] f.type \in {"tuple", "list"} -> \A i \in 1..Len(f.val) : RoundTrips(f.val[i])
      [] OTHER -> FALSE

\* The literal text Compiler.quoted tries first.
literal(f) ==
    IF f.type \in {"int", "float", "complex"} THEN <<"(">> \o f.val \o <<")">>
    ELSE pformat(f)

\* pickle.HIGHEST_PROTOCOL
HIGHEST_PROTOCOL == 5

\* pickle.dumps(form, protocol): the bytes, or the exception raised.
\*   function   a lambda: PicklingError under every protocol
\*   slots      an object of a class with __slots__ and no __getstate__:
\*              TypeError under protocols 0 and 1, serialized from 2 on
\*   reduce2    an object whose __reduce_ex__ raises PicklingError under
\*              protocols 0 and 1, serialized from 2 on
\*   any other value is serialized under every protocol
pickle_dumps(f, protocol) ==
    LET fails(e) == [raises |-> TRUE, exc |-> e, bytes |-> <<>>] IN
    CASE f.type = "function" ->
            fails(Exc("PicklingError", <<"Can't pickle ">> \o pformat(f)))
      [] f.type = "slots" /\ protocol < 2 ->
            fails(Exc("TypeError", <<"a class that defines __slots__ without defining __getstate__ cannot be pickled">>))
      [] f.type = "reduce2" /\ protocol < 2 ->
            fails(Exc("PicklingError", <<"needs protocol 2">>))
      [] OTHER ->
            [raises |-> FALSE, exc |-> NoError,
             bytes |-> <<"b'", IF protocol = 0 THEN "text:" ELSE "binary:">> \o pformat(f) \o <<"'">>]

\* The text Compiler.pickle returns for the optimized dumps.
pickle_text(f, dumps) ==
    <<"__import__('pickle').loads(  # ">> \o pformat(f) \o <<NL, "    ">> \o dumps \o <<NL, ")">>

\* Compiler.symbol, whose one nested call, self.quoted(chain[0]) of a str,
\* returns the repr of that str.
symbol_body(symbol) ==
    IF StartsWith(symbol, <<"..">>) \/ \E i \in 1..Len(symbol) : symbol[i] \in {" ", "(", ")"}
    THEN symbol
    ELSE IF Contains(symbol, <<"..">>)
    THEN LET i == Find(symbol, <<"..">>)
             p0 == SubSeq(symbol, 1, i - 1)
             p1 == SubSeq(symbol, i + 1, Len(symbol))
             j == Find(p1, <<".">>)
             chain0 == IF j = 0 THEN p1 ELSE SubSeq(p1, 1, j - 1)
             rest == IF j = 0 THEN <<>> ELSE SubSeq(p1, j, Len(p1))
         IN  IF p0 = qualname
             THEN <<"__import__('builtins').globals()[">> \o literal(Str(chain0)) \o <<"]">> \o rest
             ELSE <<"__import__(">> \o repr_str(p0)
                  \o (IF Contains(p0, <<".">>) THEN <<",fromlist='?'">> ELSE <<>>)
                  \o <<").">> \o p1
    ELSE IF EndsWith(symbol, <<".">>)
    THEN LET module == SubSeq(symbol, 1, Len(symbol) - 1)
         IN  <<"__import__(">> \o repr_str(module)
             \o (IF Contains(module, <<".">>) THEN <<",fromlist='?'">> ELSE <<>>) \o <<")">>
    ELSE symbol

\* ------------------------------------------------------ macro resolution

Found(id) == [k |-> "found", id |-> id, exc |-> NoError]
NoMacro == [k |-> "none", id |-> "", exc |-> NoError]
Raises(e) == [k |-> "raise", id |-> "", exc |-> e]

\* vars(self.ns[MACROS])[name]
container_lookup(macros, name) ==
    IF name \in DOMAIN macros THEN Found(macros[name])
    ELSE Raises(Exc("KeyError", repr_str(name)))

\* eval(self.symbol(head)): import the module part, then walk _macro_.<name>.
eval_symbol(head) ==
    LET i == Find(head, <<"..">>)
        p0 == SubSeq(head, 1, i - 1)
        p1 == SubSeq(head, i + 1, Len(head))
    IN  IF symbol_body(head) = head \/ p0 = qualname \/ Contains(p1, <<"..">>)
        THEN Raises(Exc("SyntaxError", <<"invalid syntax">>))
        ELSE IF p0 \notin Importable
        THEN Raises(Exc("ModuleNotFoundError", <<"No module named ">> \o repr_str(p0)))
        ELSE IF ~HasMacros(p0) \/ ~StartsWith(p1, MACROS \o <<".">>)
        THEN Raises(Exc("AttributeError", <<"module has no attribute ">> \o repr_str(MACROS)))
        ELSE LET name == SubSeq(p1, Len(MACROS) + 2, Len(p1))
             IN  IF name \in DOMAIN ForeignMacros(p0) THEN Found(ForeignMacros(p0)[name])
                 ELSE Raises(Exc("AttributeError", <<"no attribute ">> \o repr_str(name)))

\* A faulty variant without the tolerance for the auto-reference marker.
_qualified_macro_strict(macros, head, parts) ==
    IF parts[1] = qualname THEN container_lookup(macros, parts[3]) ELSE eval_symbol(head)

\* Compiler._qualified_macro
_qualified_macro(macros, head, parts) ==
    LET got == IF parts[1] = qualname THEN container_lookup(macros, parts[3])
               ELSE eval_symbol(head)
    IN  IF got.k = "raise" /\ got.exc.type \in {"KeyError", "AttributeError"}
           /\ parts[2] = xAUTO
        THEN NoMacro
        ELSE got

\* A faulty variant that looks in the container as it was at construction.
_unqualified_macro_stale(macros, head) ==
    IF head \in DOMAIN InitialMacros THEN Found(InitialMacros[head]) ELSE NoMacro

\* Compiler._unqualified_macro
_unqualified_macro(macros, head) ==
    LET got == container_lookup(macros, head)
    IN  IF got.k = "raise" /\ got.exc.type = "KeyError" THEN NoMacro ELSE got

\* Compiler._get_macro
_get_macro(macros, head) ==
    LET parts == RE_MACRO_split(head)
        head2 == Replace1(head, xAUTO, MACRO)
    IN  IF Len(parts) > 1 THEN _qualified_macro(macros, head2, parts)
        ELSE _unqualified_macro(macros, head2)

\* ---------------------------------------------------------------- state

VARIABLES
    pc,          \* where Compiler.compile is: idle, loop, form, eval, after,
                 \* or how the last call ended: returned, raised, exited
    budget,      \* forms this Compiler may still be handed
    result,      \* compile's local list of texts
    stack,       \* the active traced method calls, innermost last
    ret,         \* what the method call that ended last handed back
    error,       \* self.error
    abort,       \* self.abort
    evaluate,    \* self.evaluate
    ns,          \* self.ns: its __name__ and its _macro_ container
    NS,          \* the context variable NS
    failures,    \* the exceptions the tracers caught since the call began: for
                 \* each the method that raised, its class, and how many traced
                 \* methods were active
    stderr,      \* what the call printed to sys.stderr
    exit_status, \* the status of sys.exit, -1 when it was not called
    raised,      \* the CompileError the call raised: message and cause
    returned,    \* the text the call returned
    warnings     \* the PostCompileWarnings the call issued

vars == <<pc, budget, result, stack, ret, error, abort, evaluate, ns, NS,
          failures, stderr, exit_status, raised, returned, warnings>>

flags == <<error, abort, evaluate, ns>>
outputs == <<stderr, exit_status, raised, returned, warnings>>

\* The values of NS: its default (), this Compiler's namespace, and another
\* namespace that host code may put there.
NS_default == "()"
self_ns == "self.ns"
other_ns == "other"

\* One active call of a traced method on expr f. pc is its position, todo and
\* acc the pieces of text still to produce and already produced, tok the token
\* of macro_context, id the macro callable, bad a non-str piece handed to join.
Frame(m, f) ==
    [m |-> m, f |-> f, pc |-> 0, todo |-> <<>>, acc |-> <<>>, tok |-> "",
     id |-> "", bad |-> FALSE]

Top == stack[Len(stack)]
Pop == SubSeq(stack, 1, Len(stack) - 1)

\* What a method body does next.
Return(r) == [k |-> "return", r |-> r]
Raise(e) == [k |-> "raise", exc |-> e]
Call(fr, child) == [k |-> "call", fr |-> fr, child |-> child]

\* Python truth of a returned str or None
Truthy(r) == ~r.none /\ r.val # <<>>

IsWord(f, w) == f.type = "str" /\ f.val = w

\* str(x) inside an f-string
py_str(f) == IF f.type = "str" THEN f.val ELSE pformat(f)

\* Pieces of a text produced in order: a ready text, a form to compile (its
\* text goes after pre), or an exception raised when the iteration gets there.
TextItem(t, bad) == [k |-> "text", f |-> Str(<<>>), pre |-> t, exc |-> NoError, bad |-> bad]
FormItem(pre, f) == [k |-> "form", f |-> f, pre |-> pre, exc |-> NoError, bad |-> FALSE]
RaiseItem(e) == [k |-> "raise", f |-> Str(<<>>), pre |-> <<>>, exc |-> e, bad |-> FALSE]

RECURSIVE SkipTexts(_, _, _)
SkipTexts(todo, acc, bad) ==
    IF todo # <<>> /\ Head(todo).k = "text"
    THEN SkipTexts(Tail(todo), Append(acc, Head(todo).pre), bad \/ Head(todo).bad)
    ELSE [todo |-> todo, acc |-> acc, bad |-> bad]

\* Consume the iterator up to its next nested self.form call, its exception,
\* or its end.
Iterate(fr, todo, acc) ==
    LET r == SkipTexts(todo, acc, fr.bad)
        fr2 == [fr EXCEPT !.pc = 2, !.todo = r.todo, !.acc = r.acc, !.bad = r.bad]
    IN  IF r.todo = <<>> THEN [k |-> "done", fr |-> fr2]
        ELSE IF Head(r.todo).k = "raise" THEN Raise(Head(r.todo).exc)
        ELSE Call(fr2, Frame("form", Head(r.todo).f))

\* The iteration of frame fr resumed with the text r of its nested call
\* (started from items when the frame is new).
Resume(fr, r, items) ==
    IF fr.pc = 0 THEN Iterate(fr, items, <<>>)
    ELSE Iterate(fr, Tail(fr.todo), Append(fr.acc, Head(fr.todo).pre \o r.val))

\* ------------------------------------------------- the compiling methods
\* Each body is given its frame and the value r its nested call handed back.

\* Compiler.form
form_body(fr, r) ==
    IF fr.pc # 0 THEN Return(r)
    ELSE IF fr.f.type = "tuple" /\ fr.f.val # <<>>
    THEN Call([fr EXCEPT !.pc = 1], Frame("tuple", fr.f))
    ELSE IF fr.f.type = "str" /\ ~StartsWith(fr.f.val, <<":">>)
    THEN Call([fr EXCEPT !.pc = 1], Frame("symbol", fr.f))
    ELSE Call([fr EXCEPT !.pc = 1], Frame("quoted", fr.f))

\* Compiler.tuple
tuple_body(fr, r) ==
    IF fr.pc # 0 THEN Return(r)
    ELSE IF fr.f.val[1].type = "str"
    THEN Call([fr EXCEPT !.pc = 1], Frame("special", fr.f))
    ELSE Call([fr EXCEPT !.pc = 1], Frame("call", fr.f))

\* Compiler.special
special_body(fr, r) ==
    IF fr.pc # 0 THEN Return(r)
    ELSE IF fr.f.val[1].val = <<"quote">>
    THEN IF Len(fr.f.val) < 2
         THEN Raise(Exc("IndexError", <<"tuple index out of range">>))
         ELSE Call([fr EXCEPT !.pc = 1], Frame("quoted", fr.f.val[2]))
    ELSE IF fr.f.val[1].val = <<"lambda">>
    THEN Call([fr EXCEPT !.pc = 1], Frame("function", fr.f))
    ELSE Call([fr EXCEPT !.pc = 1], Frame("invocation", fr.f))

\* Compiler.invocation
invocation_body(fr, r) ==
    CASE fr.pc = 0 -> Call([fr EXCEPT !.pc = 1], Frame("macro", fr.f))
      [] fr.pc = 1 ->
            IF Truthy(r)
            THEN Return(Text(<<"# ">> \o fr.f.val[1].val \o <<NL>> \o r.val))
            ELSE Call([fr EXCEPT !.pc = 2],
                      Frame("call", Tuple(<<Str(Replace1(fr.f.val[1].val, xAUTO, <<"..">>))>>
                                          \o Tail(fr.f.val))))
      [] OTHER -> Return(r)

\* Compiler.quoted
quoted_body(fr, r) ==
    IF fr.pc # 0 THEN Return(r)
    ELSE IF fr.f.type = "ellipsis" THEN Return(Text(<<"...">>))
    ELSE IF RoundTrips(fr.f) THEN Return(Text(literal(fr.f)))
    ELSE Call([fr EXCEPT !.pc = 1], Frame("pickle", fr.f))

\* Compiler.pickle
pickle_body(fr, r) ==
    LET text == pickle_dumps(fr.f, 0)
        binary == pickle_dumps(fr.f, HIGHEST_PROTOCOL)
    IN  IF ~text.raises THEN Return(Text(pickle_text(fr.f, text.bytes)))
        ELSE IF text.exc.type # "PicklingError" THEN Raise(text.exc)
        ELSE IF binary.raises THEN Raise(binary.exc)
        ELSE Return(Text(pickle_text(fr.f, binary.bytes)))

\* Compiler.parameters: a generator, so its pieces are produced (and its
\* exceptions raised) while Compiler.function joins them.
parameters(params) ==
    IF params.type \notin {"tuple", "list", "str"}
    THEN <<RaiseItem(Exc("TypeError", <<"object is not iterable">>))>>
    ELSE
    LET it == IF params.type = "str" THEN [i \in 1..Len(params.val) |-> Str(<<params.val[i]>>)]
              ELSE params.val
        colons == {i \in 1..Len(it) : IsWord(it[i], <<":">>)}
        c == IF colons = {} THEN Len(it) + 1 ELSE CHOOSE i \in colons : \A j \in colons : i <= j
        p == _pairs(SubSeq(it, c + 1, Len(it)))
        single(a) ==
            IF a.type = "list" THEN RaiseItem(Exc("TypeError", <<"unhashable type">>))
            ELSE IF IsWord(a, <<":", "/">>) THEN TextItem(<<"/">>, FALSE)
            ELSE IF IsWord(a, <<":", "*">>) THEN TextItem(<<"*">>, FALSE)
            ELSE TextItem(py_str(a), a.type # "str")
        paired(k, v) ==
            IF IsWord(k, <<":", "*">>)
            THEN TextItem(IF IsWord(v, <<":", "?">>) THEN <<"*">> ELSE <<"*">> \o py_str(v), FALSE)
            ELSE IF IsWord(k, <<":", "/">>) THEN TextItem(<<"/">>, FALSE)
            ELSE IF IsWord(k, <<":", "**">>) THEN TextItem(<<"**">> \o py_str(v), FALSE)
            ELSE IF IsWord(v, <<":", "?">>) THEN TextItem(py_str(k), k.type # "str")
            ELSE FormItem(py_str(k) \o <<"=">>, v)
    IN  [i \in 1..(c - 1) |-> single(it[i])]
        \o [i \in 1..Len(p.pairs) |-> paired(p.pairs[i][1], p.pairs[i][2])]
        \o (IF p.incomplete THEN <<RaiseItem(IncompletePair)>> ELSE <<>>)

\* Compiler.function
function_body(fr, r) ==
    IF fr.pc = 3
    THEN Return(Text(<<"(lambda ">> \o Join(<<",">>, fr.acc) \o <<":">> \o r.val \o <<")">>))
    ELSE IF fr.pc = 0 /\ Len(fr.f.val) < 2
    THEN Raise(Exc("ValueError", <<"not enough values to unpack">>))
    ELSE LET st == Resume(fr, r, parameters(fr.f.val[2]))
         IN  IF st.k # "done" THEN st
             ELSE IF st.fr.bad
             THEN Raise(Exc("TypeError", <<"sequence item: expected str instance">>))
             ELSE Call([st.fr EXCEPT !.pc = 3],
                       Frame("body", Value("list", SubSeq(fr.f.val, 3, Len(fr.f.val)))))

\* Compiler.body
body_body(fr, r) ==
    IF Len(fr.f.val) = 0 THEN Return(Text(<<"(", ")">>))
    ELSE LET st == Resume(fr, r, [i \in 1..Len(fr.f.val) |-> FormItem(<<>>, fr.f.val[i])])
             one == st.fr.acc[1]
         IN  IF st.k # "done" THEN st
             ELSE IF Len(fr.f.val) > 1
             THEN Return(Text(<<"(">> \o _join_args(st.fr.acc) \o <<")", "[-1]">>))
             ELSE Return(Text(ReplaceAll((IF Contains(one, <<NL>>) THEN <<NL>> ELSE <<>>) \o one,
                                         NL, <<NL, "  ">>)))

\* The arguments of a call in source order: the positional ones up to ":",
\* then the pairs.
call_args(rest) ==
    LET colons == {i \in 1..Len(rest) : IsWord(rest[i], <<":">>)}
        c == IF colons = {} THEN Len(rest) + 1 ELSE CHOOSE i \in colons : \A j \in colons : i <= j
        p == _pairs(SubSeq(rest, c + 1, Len(rest)))
        paired(k, v) ==
            IF k.type # "str" THEN RaiseItem(Exc("TypeError", <<"unsupported operand type(s) for +">>))
            ELSE FormItem(PAIR_WORDS(k.val), v)
    IN  [i \in 1..(c - 1) |-> FormItem(<<>>, rest[i])]
        \o [i \in 1..Len(p.pairs) |-> paired(p.pairs[i][1], p.pairs[i][2])]
        \o (IF p.incomplete THEN <<RaiseItem(IncompletePair)>> ELSE <<>>)

\* type(head) is str and head.startswith(".")
IsMethod(head) == head.type = "str" /\ head.val # <<>> /\ head.val[1] \in {".", ".."}

\* head[1:]
Member(head) == (IF head.val[1] = ".." THEN <<".">> ELSE <<>>) \o Tail(head.val)

\* Compiler.call
call_body(fr, r) ==
    LET head == fr.f.val[1]
        args == call_args(Tail(fr.f.val))
        items == IF IsMethod(head)
                 THEN IF args = <<>> THEN <<RaiseItem(Exc("StopIteration", <<>>))>> ELSE args
                 ELSE <<FormItem(<<>>, head)>> \o args
        st == Resume(fr, r, items)
        acc == st.fr.acc
    IN  IF st.k # "done" THEN st
        ELSE IF IsMethod(head)
        THEN Return(Text(acc[1] \o <<".">> \o Member(head) \o <<"(">>
                         \o _join_args(Tail(acc)) \o <<")">>))
        ELSE Return(Text(acc[1] \o <<"(">> \o _join_args(Tail(acc)) \o <<")">>))

\* Compiler.macro: resolve the head; inside macro_context call the macro on
\* the raw tail and compile what it returns.
macro_body(fr, r) ==
    CASE fr.pc = 0 ->
            LET got == _get_macro(ns.macros, fr.f.val[1].val)
            IN  IF got.k = "raise" THEN Raise(got.exc)
                ELSE IF got.k = "none" THEN Return(None)
                ELSE [k |-> "enter", fr |-> [fr EXCEPT !.pc = 1, !.id = got.id, !.tok = NS]]
      [] fr.pc = 1 ->
            LET out == macro_call(fr.id, Tail(fr.f.val))
            IN  IF out.raises THEN Raise(out.exc)
                ELSE Call([fr EXCEPT !.pc = 2], Frame("form", out.form))
      [] OTHER -> Return(r)

\* A faulty variant that leaves NS as it is.
NS_reset_leak(now, token) == now

\* NS.reset(token): the value NS has after it, given the one it has now.
NS_reset(now, token) == token

\* Compiler.macro_context around the step o of Compiler.macro: NS.set(self.ns)
\* on entry, NS.reset(token) in the finally clause on every way out. In
\* between, the macro's own code may set NS.
macro_context(fr, o) ==
    CASE o.k = "enter" -> self_ns
      [] fr.pc >= 1 /\ o.k \in {"return", "raise"} -> NS_reset(NS, fr.tok)
      [] fr.pc = 1 /\ o.k = "call" ->
            IF macro_call(fr.id, Tail(fr.f.val)).setsNS THEN other_ns ELSE NS
      [] OTHER -> NS

TraceMark == "(>   >  > >>"

\* A faulty variant that marks the form but does not say which method raised.
trace_text_anonymous(fr, e) ==
    <<TraceMark>> \o pformat(fr.f) \o <<"<< <  <   <)">>
    \o ReplaceAll(<<NL, e.type, ":", NL, " ">> \o e.msg, NL, <<NL, "# ">>)

\* The text a tracer returns in place of the text of the method that raised.
trace_text(fr, e) ==
    <<TraceMark>> \o pformat(fr.f) \o <<"<< <  <   <)">>
    \o ReplaceAll(<<NL, "Compiler.", fr.m, "() ", e.type, ":", NL, " ">> \o e.msg,
                  NL, <<NL, "# ">>)

\* A faulty variant that returns the marked text but does not keep the
\* exception in self.error.
_trace_forgets(o) ==
    CASE o.k = "return" ->
            /\ stack' = Pop
            /\ ret' = o.r
            /\ UNCHANGED <<error, failures>>
      [] o.k = "raise" ->
            /\ failures' = Append(failures, [step |-> Top.m, type |-> o.exc.type,
                                              depth |-> Len(stack)])
            /\ stack' = Pop
            /\ ret' = Text(<<"(>   >  > >>">> \o pformat(Top.f))
            /\ UNCHANGED error
      [] o.k = "call" ->
            /\ stack' = Append(Pop, o.fr) \o <<o.child>>
            /\ UNCHANGED <<ret, error, failures>>
      [] OTHER ->
            /\ stack' = Append(Pop, o.fr)
            /\ UNCHANGED <<ret, error, failures>>

\* _trace: the wrapper of every compiling method. What the body returns is
\* returned; an exception is kept in self.error and the marked text returned.
_trace(o) ==
    CASE o.k = "return" ->
            /\ stack' = Pop
            /\ ret' = o.r
            /\ UNCHANGED <<error, failures>>
      [] o.k = "raise" ->
            /\ error' = o.exc
            /\ failures' = Append(failures, [step |-> Top.m, type |-> o.exc.type,
                                              depth |-> Len(stack)])
            /\ stack' = Pop
            /\ ret' = Text(trace_text(Top, o.exc))
      [] o.k = "call" ->
            /\ stack' = Append(Pop, o.fr) \o <<o.child>>
            /\ UNCHANGED <<ret, error, failures>>
      [] OTHER ->
            /\ stack' = Append(Pop, o.fr)
            /\ UNCHANGED <<ret, error, failures>>

Running(m) == pc = "form" /\ stack # <<>> /\ Top.m = m

untouched == <<pc, budget, result, abort, evaluate, ns, stderr, exit_status, raised,
          returned, warnings>>

form == Running("form") /\ _trace(form_body(Top, ret)) /\ UNCHANGED <<untouched, NS>>
tuple == Running("tuple") /\ _trace(tuple_body(Top, ret)) /\ UNCHANGED <<untouched, NS>>
special == Running("special") /\ _trace(special_body(Top, ret)) /\ UNCHANGED <<untouched, NS>>
invocation == Running("invocation") /\ _trace(invocation_body(Top, ret)) /\ UNCHANGED <<untouched, NS>>
quoted == Running("quoted") /\ _trace(quoted_body(Top, ret)) /\ UNCHANGED <<untouched, NS>>
pickle == Running("pickle") /\ _trace(pickle_body(Top, ret)) /\ UNCHANGED <<untouched, NS>>
symbol == Running("symbol") /\ _trace(Return(Text(symbol_body(Top.f.val)))) /\ UNCHANGED <<untouched, NS>>
function == Running("function") /\ _trace(function_body(Top, ret)) /\ UNCHANGED <<untouched, NS>>
body == Running("body") /\ _trace(body_body(Top, ret)) /\ UNCHANGED <<untouched, NS>>
call == Running("call") /\ _trace(call_body(Top, ret)) /\ UNCHANGED <<untouched, NS>>
macro ==
    /\ Running("macro")
    /\ _trace(macro_body(Top, ret))
    /\ NS' = macro_context(Top, macro_body(Top, ret))
    /\ UNCHANGED untouched

\* ------------------------------------------------------------ the inputs

Sym(a) == Str(<<a>>)
Qualified(mod, marker, name) == Str(<<mod>> \o marker \o <<name>>)
Colon == Str(<<":">>)
Star == Str(<<":", "*">>)
Stars == Str(<<":", "**">>)
Int1 == Value("int", <<"1">>)
NaN == Value("float", <<"nan">>)
\* spam = []; spam.append(spam)
Spam == Value("reclist", <<"[[...]]">>)
Lambda == Value("function", <<"<function <lambda>>">>)
Slotted == Value("slots", <<"<S object>">>)
Reduce2 == Value("reduce2", <<"<P2 object>">>)

\* The forms a caller may hand to compile().
Pool == <<
    Tuple(<<Sym("boom")>>),
    Tuple(<<Sym("defm")>>),
    Tuple(<<Sym("m"), Sym("a")>>),
    Tuple(<<Sym("quote")>>),
    Tuple(<<Sym("quote"), Sym("a")>>),
    Tuple(<<Sym("quote"), Sym("a"), Sym("b")>>),
    Tuple(<<Sym("f"), Sym("x"), Colon, Stars, Sym("d"), Star, Sym("a")>>),
    Tuple(<<Sym("f"), Sym("x"), Sym("y"), Colon, Star, Sym("a"), Stars, Sym("d"), Star, Sym("b")>>),
    Tuple(<<Sym("f"), Tuple(<<Sym("g"), Tuple(<<Sym("quote")>>)>>)>>),
    Tuple(<<Sym("mEmpty")>>),
    Tuple(<<Sym("mId"), Tuple(<<Sym("mSetNS"), Tuple(<<Sym("mId"), Int1>>)>>)>>),
    Tuple(<<Sym("mSetNS"), Tuple(<<Sym("mId")>>)>>),
    Tuple(<<Sym("f"),
            Tuple(<<Qualified("__main__", MACRO, "mId"), Sym("a")>>),
            Tuple(<<Qualified("mod", MACRO, "fm"), Sym("a")>>),
            Tuple(<<Qualified("mod", xAUTO, "fm"), Sym("a")>>)>>),
    Tuple(<<Sym("f"),
            Tuple(<<Qualified("__main__", xAUTO, "nope"), Sym("a")>>),
            Tuple(<<Qualified("mod", xAUTO, "nope"), Sym("a")>>),
            Tuple(<<Qualified("bare", xAUTO, "x"), Sym("a")>>)>>),
    Tuple(<<Sym("f"),
            Tuple(<<Qualified("__main__", MACRO, "nope"), Sym("a")>>),
            Tuple(<<Qualified("mod", MACRO, "nope"), Sym("a")>>),
            Tuple(<<Qualified("nomod", MACRO, "x"), Sym("a")>>)>>),
    Tuple(<<Qualified("nomod", xAUTO, "x"), Sym("a")>>),
    Tuple(<<Sym("lambda"), Tuple(<<Sym("a"), Colon, Sym("b"), Int1>>), Sym("a")>>),
    Tuple(<<Str(<<".", "m">>), Sym("x"), Colon, Sym("k"), Sym("v")>>),
    Tuple(<<Str(<<".", "m">>), Colon, Sym("k"), Sym("v")>>),
    NaN,
    Spam,
    Lambda,
    Slotted,
    Reduce2
>>

\* ------------------------------------------------------- Compiler.compile

NoRaise == [msg |-> <<>>, cause |-> NoError]

\* Compiler.__init__, then nothing compiled yet.
Init ==
    /\ pc = "idle"
    /\ budget = MaxForms
    /\ result = <<>>
    /\ stack = <<>>
    /\ ret = None
    /\ error = NoError
    /\ abort = FALSE
    /\ evaluate \in BOOLEAN
    /\ ns \in [name : {"__main__", "lib"}, macros : {InitialMacros}]
    /\ NS = NS_default
    /\ failures = <<>>
    /\ stderr = <<>>
    /\ exit_status = -1
    /\ raised = NoRaise
    /\ returned = None
    /\ warnings = <<>>

\* A caller calls compile(forms) on the Compiler: result = [].
compile_begin ==
    /\ pc \in {"idle", "returned", "raised", "exited"}
    /\ budget > 0
    /\ pc' = "loop"
    /\ result' = <<>>
    /\ failures' = <<>>
    /\ stderr' = <<>>
    /\ exit_status' = -1
    /\ raised' = NoRaise
    /\ returned' = None
    /\ warnings' = <<>>
    /\ UNCHANGED <<budget, stack, ret, flags, NS>>

\* for form in forms: the iterator yields the next form, which self.form
\* starts to compile, or it is exhausted and compile returns the joined text.
compile_next ==
    /\ pc = "loop"
    /\ \/ /\ budget > 0
          /\ \E i \in 1..Len(Pool) : stack' = <<Frame("form", Pool[i])>>
          /\ ret' = None
          /\ budget' = budget - 1
          /\ pc' = "form"
          /\ UNCHANGED returned
       \/ /\ returned' = Text(Join(<<NL, NL>>, result))
          /\ pc' = "returned"
          /\ UNCHANGED <<stack, ret, budget>>
    /\ UNCHANGED <<result, flags, NS, failures, stderr, exit_status, raised, warnings>>

\* self.form(form) is back: if self.error, clear it and raise CompileError
\* from it; else go on to self.eval(form).
compile_check ==
    /\ pc = "form" /\ stack = <<>>
    /\ IF error # NoError
       THEN /\ raised' = [msg |-> <<NL>> \o ret.val, cause |-> error]
            /\ error' = NoError
            /\ pc' = "raised"
       ELSE /\ pc' = "eval"
            /\ UNCHANGED <<raised, error>>
    /\ UNCHANGED <<budget, result, stack, ret, abort, evaluate, ns, NS, failures,
                   stderr, exit_status, returned, warnings>>

\* Faulty variants of the entry-point test: one that never sees an entry
\* point, one that sees one everywhere.
is_entry_point_never(n) == FALSE
is_entry_point_always(n) == TRUE

\* self.ns.get("__name__") == "__main__"
is_entry_point(n) == n.name = "__main__"

\* Compiler.eval, and result.extend of what it returns.
eval ==
    LET text == ret.val
        run == HostExec(text)
    IN  /\ pc = "eval"
        /\ pc' = "after"
        /\ IF evaluate /\ run.raises
           THEN /\ IF is_entry_point(ns)
                   THEN abort' = TRUE /\ UNCHANGED warnings
                   ELSE /\ warnings' = Append(warnings, run.exc)
                        /\ UNCHANGED abort
                /\ result' = result \o <<text, <<"# ">> \o ReplaceAll(format_exc(run.exc), NL, <<NL, "# ">>)>>
                /\ UNCHANGED ns
           ELSE /\ result' = Append(result, text)
                /\ ns' = IF evaluate /\ run.installs
                         THEN [ns EXCEPT !.macros = (<<"m">> :> "mId") @@ @]
                         ELSE ns
                /\ UNCHANGED <<abort, warnings>>
        /\ UNCHANGED <<budget, stack, ret, error, evaluate, NS, failures, stderr,
                       exit_status, raised, returned>>

\* if self.abort: print what was compiled to sys.stderr and sys.exit(1).
compile_abort ==
    /\ pc = "after"
    /\ IF abort
       THEN /\ stderr' = Join(<<NL, NL>>, result)
            /\ exit_status' = 1
            /\ pc' = "exited"
       ELSE /\ pc' = "loop"
            /\ UNCHANGED <<stderr, exit_status>>
    /\ UNCHANGED <<budget, result, stack, ret, flags, NS, failures, raised,
                   returned, warnings>>

Next ==
    \/ compile_begin
    \/ compile_next
    \/ compile_check
    \/ eval
    \/ compile_abort
    \/ form
    \/ tuple
    \/ special
    \/ invocation
    \/ macro
    \/ quoted
    \/ pickle
    \/ symbol
    \/ function
    \/ body
    \/ call

Spec == Init /\ [][Next]_vars

\* ---------------------------------------------------------- properties

TracebackLine == "Traceback (most recent call last):"

\* A text every line of which is a comment.
Commented(t) ==
    /\ t # <<>> /\ t[1] = "# "
    /\ \A i \in 1..Len(t) : t[i] = NL => (i < Len(t) /\ t[i + 1] = "# ")

\* The commented failure trace Compiler.eval puts after a text.
IsTrace(t) == Len(t) >= 2 /\ t[1] = "# " /\ t[2] = TracebackLine /\ Commented(t)

\* C1: with execution enabled in an entry-point Namespace, when executing the
\* text of form k raises, the abort flag is set with the text and its trace put
\* after what forms 1..k-1 left in result; the very next step prints all of
\* result to stderr and exits with status 1; the call never returns normally
\* and the only step possible after the exit is a new compile() call, so no
\* later form is compiled or executed.
C1_EntryPointAbort ==
    [][ /\ (pc = "eval" /\ evaluate /\ ns.name = "__main__" /\ HostExec(ret.val).raises)
            => /\ abort' /\ pc' = "after"
               /\ Len(result') = Len(result) + 2
               /\ SubSeq(result', 1, Len(result)) = result
               /\ result'[Len(result) + 1] = ret.val
               /\ IsTrace(result'[Len(result) + 2])
        /\ (pc = "after" /\ abort)
            => /\ pc' = "exited" /\ exit_status' = 1
               /\ stderr' = Join(<<NL, NL>>, result)
               /\ result' = result /\ budget' = budget /\ ns' = ns
        /\ (pc = "exited") => (pc' = "loop" /\ result' = <<>>)
        /\ (pc' = "returned" /\ ns.name = "__main__" /\ evaluate)
            => \A i \in 1..Len(result) : ~IsTrace(result[i])
      ]_vars

\* C1 witness: the second form of a call raised when executed in an entry-point
\* Namespace and the process exited, the texts of both forms printed.
C1_Witness ==
    /\ pc = "exited" /\ exit_status = 1 /\ ns.name = "__main__"
    /\ Len(result) = 3 /\ IsTrace(result[3])
    /\ stderr = Join(<<NL, NL>>, result)

\* C2: with execution enabled in a library Namespace, an execution failure is
\* not fatal: abort is never set and the process never exits; the failing step
\* issues one PostCompileWarning and puts the text, immediately followed by its
\* commented trace, in result; the loop then goes on to the next form; and a
\* call that returns returns all of result joined by blank lines.
C2_LibraryContinues ==
    /\ [](ns.name # "__main__" => (~abort /\ pc # "exited" /\ exit_status = -1))
    /\ [][ /\ (pc = "eval" /\ evaluate /\ ns.name # "__main__" /\ HostExec(ret.val).raises)
              => /\ pc' = "after"
                 /\ Len(warnings') = Len(warnings) + 1
                 /\ Len(result') = Len(result) + 2
                 /\ SubSeq(result', 1, Len(result)) = result
                 /\ result'[Len(result) + 1] = ret.val
                 /\ IsTrace(result'[Len(result) + 2])
           /\ (pc = "after" /\ ns.name # "__main__") => (pc' = "loop" /\ result' = result)
           /\ (pc' = "returned") => (returned' = Text(Join(<<NL, NL>>, result)))
         ]_vars

\* C2 witness: in a library Namespace the first form failed when executed, a
\* second form was compiled and executed after it, and the call returned.
C2_Witness ==
    /\ pc = "returned" /\ ns.name = "lib" /\ evaluate
    /\ Len(result) = 3 /\ IsTrace(result[2]) /\ Len(warnings) = 1
    /\ returned = Text(Join(<<NL, NL>>, result))

\* C3: once a compiling step has failed in a form, at any depth, the call can
\* only finish compiling that form and raise: the text is not handed to eval,
\* no further form is taken, the call does not return; the CompileError
\* carries the marked text of the form and, as its cause, a caught exception.
C3_CompileErrorAborts ==
    /\ (failures # <<>> => pc \in {"form", "raised"})
    /\ (pc = "form" /\ stack = <<>> /\ failures # <<>> => error # NoError)
    /\ (pc = "raised"
        => /\ failures # <<>>
           /\ raised.cause # NoError
           /\ raised.cause.type = failures[Len(failures)].type
           /\ raised.msg = <<NL>> \o ret.val
           /\ Contains(raised.msg, <<TraceMark>>)
           /\ returned = None)

\* C3 witness: the second form of a call failed inside a macro expansion (the
\* macro mId called without its argument, under the expansion of mSetNS) and
\* the call raised, the first form's text being the only one in result.
C3_Witness ==
    /\ pc = "raised" /\ Len(result) = 1
    /\ raised.cause.type = "TypeError"
    /\ failures[1].step = "macro" /\ failures[1].depth > 5

\* The text of (m a) compiled as a call, and the text of (defm).
CallOfM == <<"m", "(", NL, "  ", "a", ")">>
ExpansionOfM == <<"# ", "m", NL, "a">>
CallOfDefm == <<"defm", "(", ")">>

\* C4: with execution enabled, a form's text is executed before the next form
\* is compiled: once the text of (defm), whose execution installs the macro m,
\* is in result, m is in the macro container, and no later form of the call
\* compiled (m a) as a call.
C4_CompileThenExecute ==
    evaluate =>
        \A i \in 1..Len(result) :
            result[i] = CallOfDefm
            => /\ <<"m">> \in DOMAIN ns.macros
               /\ \A j \in (i + 1)..Len(result) : result[j] # CallOfM
               /\ (pc \in {"eval", "after"} /\ stack = <<>>) => ret.val # CallOfM

\* C4 witness: (defm) then (m a) in one call, the second compiled as the
\* expansion of the macro the first installed.
C4_Witness ==
    /\ evaluate /\ Len(result) = 2
    /\ result[1] = CallOfDefm /\ result[2] = ExpansionOfM

\* The active macro-expansion steps: those inside macro_context.
Expanding == {i \in 1..Len(stack) : stack[i].m = "macro" /\ stack[i].pc >= 1}
Innermost == stack[CHOOSE i \in Expanding : \A j \in Expanding : j <= i]

\* C5: NS follows the nesting of the macro-expansion steps. Outside any step it
\* has the value it had before the first began; inside, it is the Compiler's
\* Namespace from the entry of the innermost active step on (unless that
\* step's macro itself set NS, which holds until the step ends); so when a
\* step ends, by return or by the macro raising, NS is again what the
\* enclosing step, or the caller, had.
C5_StackDiscipline ==
    NS = IF Expanding = {} THEN NS_default
         ELSE IF Innermost.pc = 2 /\ Innermost.id = "mSetNS" THEN other_ns
         ELSE self_ns

\* C5 witness: a nested macro step ended by its macro raising while the
\* enclosing step, whose macro had set NS, is still active.
C5_Witness ==
    /\ Expanding # {} /\ NS = other_ns
    /\ failures # <<>> /\ failures[1].step = "macro" /\ failures[1].type = "TypeError"

\* The invocation step on top of the stack has its answer from self.macro.
MacroAnswered == Running("invocation") /\ Top.pc = 1
HeadOf(fr) == fr.f.val[1].val

\* C6: a compound form whose head resolves to a macro is compiled as the
\* expansion of the macro and never also as a call: Compiler.invocation hands
\* a form to Compiler.call only when its head resolves to no macro.
C6_DispatchPrecedence ==
    \A i \in 1..Len(stack) :
        (stack[i].m = "invocation" /\ stack[i].pc = 2)
        => _get_macro(ns.macros, HeadOf(stack[i])).k # "found"

\* Does looking the macro of a qualified head up fail, and does it fail
\* because the module part cannot be imported?
LookupFails(parts) ==
    IF parts[1] = qualname THEN parts[3] \notin DOMAIN ns.macros
    ELSE \/ parts[1] \notin Importable
         \/ ~HasMacros(parts[1])
         \/ parts[3] \notin DOMAIN ForeignMacros(parts[1])
ImportFails(parts) == parts[1] # qualname /\ parts[1] \notin Importable

\* The answer of self.macro is the marked text of a failure of its own.
MacroFailed ==
    /\ ~ret.none /\ StartsWith(ret.val, <<TraceMark>>)
    /\ failures # <<>> /\ failures[Len(failures)].step = "macro"

\* C7 as stated: an unqualified head absent from the local container is no
\* macro; a head qualified with .._macro_. whose lookup fails is a compile
\* error; a head carrying ..xAUTO_. whose lookup fails is no macro.
C7_AsStated ==
    MacroAnswered =>
        LET parts == RE_MACRO_split(HeadOf(Top)) IN
        /\ (Len(parts) = 1 /\ HeadOf(Top) \notin DOMAIN ns.macros) => ret.none
        /\ (Len(parts) = 3 /\ parts[2] = MACRO /\ LookupFails(parts)) => MacroFailed
        /\ (Len(parts) = 3 /\ parts[2] = xAUTO /\ LookupFails(parts)) => ret.none

\* C7 amended: as C7, but a head carrying ..xAUTO_. is no macro only when the
\* lookup fails for a missing container or name; when its module part cannot
\* be imported the failure is a compile error like any other. A form whose
\* head was no macro goes to Compiler.call with the marker replaced by "..".
C7_Resolution ==
    /\ MacroAnswered =>
        LET parts == RE_MACRO_split(HeadOf(Top)) IN
        /\ (Len(parts) = 1 /\ HeadOf(Top) \notin DOMAIN ns.macros) => ret.none
        /\ (Len(parts) = 3 /\ parts[2] = MACRO /\ LookupFails(parts)) => MacroFailed
        /\ (Len(parts) = 3 /\ parts[2] = xAUTO /\ LookupFails(parts) /\ ~ImportFails(parts))
            => ret.none
        /\ (Len(parts) = 3 /\ parts[2] = xAUTO /\ ImportFails(parts)) => MacroFailed
    /\ \A i \in 1..(Len(stack) - 1) :
        (stack[i].m = "invocation" /\ stack[i].pc = 2)
        => /\ stack[i + 1].m = "call"
           /\ HeadOf(stack[i + 1]) = Replace1(HeadOf(stack[i]), xAUTO, <<"..">>)
           /\ ~Contains(HeadOf(stack[i + 1]), xAUTO)

\* C7 witness: the head mod..xAUTO_.nope, whose module has a macro container
\* without that name, was answered "no macro" with nothing caught.
C7_Witness ==
    /\ MacroAnswered /\ ret.none /\ failures = <<>>
    /\ HeadOf(Top) = <<"mod">> \o xAUTO \o <<"nope">>

\* C8: a quote form with any number of operands other than one is a compile
\* error: when Compiler.special has its answer for such a form, an exception
\* has been kept in self.error.
C8_QuoteArity ==
    (Running("special") /\ Top.pc = 1 /\ HeadOf(Top) = <<"quote">> /\ Len(Top.f.val) # 2)
    => error # NoError

\* C9: a call form with a positional unpacking after a keyword unpacking is a
\* compile error, not emitted text: no text handed to eval, and no text
\* returned, has a * argument after a ** argument of the same call.
C9_UnpackOrder ==
    /\ (pc = "eval" => ~StarAfterStars(ret.val))
    /\ (pc = "returned" => ~StarAfterStars(returned.val))

\* How many times the atom a occurs in s.
Count(s, a) == Cardinality({i \in 1..Len(s) : s[i] = a})

\* The annotations in a message: each starts a line with "Compiler.".
Annotations(msg) == Count(msg, "Compiler.")

\* C10 as stated: the error surfaced carries one annotation per compiling
\* step that enclosed the failure.
C10_AsStated ==
    pc = "raised" => Annotations(raised.msg) = failures[Len(failures)].depth

\* C10 amended: a failure is caught once, by the tracer of the method that
\* raised, which keeps the exception in self.error (replacing an earlier one)
\* and returns a text naming that method, its form and the exception; the
\* enclosing steps catch and annotate nothing, they build their text around
\* it. The CompileError surfaced has the text of the whole form as message,
\* with the annotation of the last failure in it and no more annotations than
\* failures, and the last exception caught as cause.
C10_Breadcrumbs ==
    /\ Annotations(IF pc = "form" /\ ~ret.none THEN ret.val ELSE <<>>) <= Len(failures)
    /\ pc = "raised" =>
        LET last == failures[Len(failures)] IN
        /\ raised.cause.type = last.type
        /\ raised.msg = <<NL>> \o ret.val
        /\ Contains(raised.msg, <<"Compiler.", last.step, "() ", last.type, ":">>)
        /\ Annotations(raised.msg) >= 1
        /\ Annotations(raised.msg) <= Len(failures)

\* C10 witness: one failure under five or more enclosing steps surfaced with
\* a single annotation.
C10_Witness ==
    /\ pc = "raised" /\ Len(failures) = 1 /\ failures[1].depth >= 6
    /\ Annotations(raised.msg) = 1

\* The active call steps of method-call forms with a receiver element that
\* are compiling their first piece of text.
MethodCalls ==
    {i \in 1..(Len(stack) - 1) :
        /\ stack[i].m = "call" /\ IsMethod(stack[i].f.val[1]) /\ Len(stack[i].f.val) >= 2
        /\ stack[i].pc = 2 /\ stack[i].acc = <<>>}

\* C11: in a method-call form with at least two elements, the text before
\* ".member(" is the compilation of the second element alone, whatever it is,
\* and the arguments are those of the elements from the third onward, split
\* at ":" as in an ordinary call; so such a form never lacks a receiver.
C11_MethodSugar ==
    /\ \A i \in MethodCalls :
        /\ stack[i + 1].m = "form" /\ stack[i + 1].f = stack[i].f.val[2]
        /\ Head(stack[i].todo).pre = <<>>
        /\ Tail(stack[i].todo) = call_args(SubSeq(stack[i].f.val, 3, Len(stack[i].f.val)))
    /\ \A k \in 1..Len(failures) :
        (failures[k].step = "call" /\ failures[k].type = "StopIteration") => pc # "raised"

LoadsPrefix == <<"__import__('pickle').loads(  # ">>

\* Compiler.quoted has the answer of its pickle fallback.
PickleAnswered == Running("quoted") /\ Top.pc = 1

\* C12: the encoder falls back to pickle only for a value whose literal text
\* does not round-trip, and for every such value it neither raises nor records
\* a compile error: it returns a pickle-deserialization expression, made with
\* the text protocol when that serializes the value and with the highest
\* binary protocol when it does not.
C12_EncoderTotal ==
    /\ \A i \in 1..Len(stack) : stack[i].m = "pickle" => ~RoundTrips(stack[i].f)
    /\ \A k \in 1..Len(failures) : failures[k].step # "pickle"
    /\ PickleAnswered =>
        LET text == pickle_dumps(Top.f, 0)
            binary == pickle_dumps(Top.f, HIGHEST_PROTOCOL)
        IN  /\ ~ret.none /\ StartsWith(ret.val, LoadsPrefix)
            /\ ret.val = pickle_text(Top.f, IF text.raises THEN binary.bytes ELSE text.bytes)

\* A compile() call has ended: it returned, raised, or asked for the exit.
CallEnded == pc \in {"returned", "raised", "exited"}

\* C13: whenever a compile() call has ended, the error flag and the abort
\* flag are both clear, so the next call on the same Compiler starts clean: a
\* call asks for the process exit only after a form of its own failed when
\* executed, its trace being the last thing in result.
C13_Reusable ==
    /\ CallEnded => (error = NoError /\ ~abort)
    /\ pc = "exited" => (result # <<>> /\ IsTrace(result[Len(result)]))

====
